---- MODULE Spec2Model ----
(***************************************************************************)
(* Model of visualizacao_cambio.py: main() loads the USD/BRL table with    *)
(* carregar_dados and passes the same DataFrame to criar_grafico_linhas,   *)
(* criar_boxplot_anual and criar_grafo_rede, in that order.                *)
(*                                                                         *)
(* Encodings.  An exchange rate is an integer number of hundredths (2.0 is *)
(* 200); every bin edge is a multiple of 0.5, exact in binary floating     *)
(* point, so the comparisons of pd.cut are exact.  A CSV date cell is the  *)
(* tuple <<year, month, day, hour>> of its text fields; pd.to_datetime     *)
(* turns it into a timestamp, the integer YYYYMMDDHH, whose integer order  *)
(* is the chronological order.  A DataFrame is a record [colunas, linhas]: *)
(* the set of its column names and the sequence of its rows; a row is a    *)
(* record with one field per column plus "idx", its index label.  A mean   *)
(* is the exact fraction [def, num, den]; NaN is the one with def = FALSE. *)
(* status is the exit status of the interpreter, -1 while main runs; saida *)
(* is what the program has printed, one word per print call.               *)
(***************************************************************************)
EXTENDS Integers, Sequences, FiniteSets, TLC

VARIABLES arquivo, df, pc, saida, imagens, status, ax, sample_df, sample_df2, G

vars == <<arquivo, df, pc, saida, imagens, status, ax, sample_df, sample_df2, G>>

-----------------------------------------------------------------------------
(* Bounds of the model and sets the inputs are drawn from.                 *)

\* longest table whose rows are drawn freely
MaxLinhas == 3
\* longest table of the generated daily series
MaxSerie == 92

NaN == "NaN"
NaNMedia == [def |-> FALSE, num |-> 0, den |-> 1]
Nenhum == [colunas |-> {}, linhas |-> <<>>]
GrafoVazio == [nodes |-> <<>>, edges |-> <<>>]

Max(a, b) == IF a >= b THEN a ELSE b
Min(a, b) == IF a <= b THEN a ELSE b

SeqsAte(S, n) == UNION {[1..k -> S] : k \in 0..n}

\* date cells: the day before 2015-09-24, two readings on that day, the other
\* two event days, and a cell that is no date
DatasUnidade ==
  { <<2015, 9, 23, 0>>, <<2015, 9, 24, 0>>, <<2015, 9, 24, 12>>,
    <<2016, 5, 12, 0>>, <<2018, 10, 28, 0>>, <<2015, 13, 1, 0>> }
DatasPequenas ==
  { <<2015, 9, 24, 0>>, <<2015, 9, 24, 12>>, <<2016, 5, 12, 0>>, <<2018, 10, 28, 0>> }
\* rates: below the range, every bin edge, two interior values, above it
TaxasUnidade == {100, 150, 175, 200, 250, 300, 350, 400, 425, 450, 500}
TaxasPequenas == {100, 200}
\* values of pre-populated Ano and Mes columns
AnosArquivo == {2014, 2016}
MesesArquivo == {12}

-----------------------------------------------------------------------------
(* Library operations used by carregar_dados.                              *)

DiasNoMes(m) == IF m = 2 THEN 28 ELSE IF m \in {4, 6, 9, 11} THEN 30 ELSE 31

\* pd.to_datetime accepts a cell naming a calendar date
DataValida(c) ==
  /\ c[2] \in 1..12
  /\ c[3] \in 1..DiasNoMes(c[2])
  /\ c[4] \in 0..23

\* pd.to_datetime: the timestamp of a date cell
to_datetime(c) == c[1] * 1000000 + c[2] * 10000 + c[3] * 100 + c[4]

\* Series.dt accessors
DtDate(t) == t \div 100
DtYear(t) == t \div 1000000
DtMonth(t) == (t \div 10000) % 100
DtQuarter(t) == (DtMonth(t) - 1) \div 3 + 1

\* pd.read_csv: the columns of the file, rows labelled 0..n-1
read_csv(arq) ==
  [ colunas |-> arq.colunas,
    linhas  |-> [i \in 1..Len(arq.linhas) |-> ("idx" :> (i - 1)) @@ arq.linhas[i]] ]

\* df[nome] = valores
AtribuirColuna(d, nome, valores) ==
  [ colunas |-> d.colunas \cup {nome},
    linhas  |-> [i \in 1..Len(d.linhas) |-> (nome :> valores[i]) @@ d.linhas[i]] ]

\* df[nome], as the sequence of its values in row order
Coluna(d, nome) == [i \in 1..Len(d.linhas) |-> d.linhas[i][nome]]

\* the rows of seq at the positions P, in their order
Filtrar(seq, P) ==
  [k \in 1..Cardinality(P) |-> seq[CHOOSE p \in P : Cardinality({q \in P : q < p}) = k - 1]]

\* the positions of the rows that share their Data with another row
Empatadas(linhas) ==
  {i \in DOMAIN linhas : \E j \in DOMAIN linhas : j # i /\ linhas[j].Data = linhas[i].Data}

\* The ways of ranking the rows of equal Data among themselves.  The sort is
\* sort_values with kind left at its default, 'quicksort', which pandas
\* documents as not stable: rows with equal Data may come out in any order.
Desempates(linhas) ==
  LET E == Empatadas(linhas)
  IN  { r \in [E -> 1..Cardinality(E)] :
          \A i \in E :
            /\ r[i] <= Cardinality({j \in E : linhas[j].Data = linhas[i].Data})
            /\ \A j \in E : (j # i /\ linhas[j].Data = linhas[i].Data) => r[j] # r[i] }

\* the rows in the order of Data, ascending or not, equal Data ranked by r
Ordenadas(linhas, r, ascending) ==
  LET Antes(i) == Cardinality({j \in DOMAIN linhas :
                     IF ascending THEN linhas[j].Data < linhas[i].Data
                                  ELSE linhas[j].Data > linhas[i].Data})
      Pos(i) == Antes(i) + (IF i \in DOMAIN r THEN r[i] ELSE 1)
  IN  [k \in DOMAIN linhas |-> linhas[CHOOSE i \in DOMAIN linhas : Pos(i) = k]]

\* mutants of sort_values: the sort left out; ascending=False
sort_values_omitido(d) == {d}
sort_values_desc(d) ==
  {[colunas |-> d.colunas, linhas |-> Ordenadas(d.linhas, r, FALSE)] : r \in Desempates(d.linhas)}
\* df.sort_values('Data'): the results it may return
sort_values(d) ==
  {[colunas |-> d.colunas, linhas |-> Ordenadas(d.linhas, r, TRUE)] : r \in Desempates(d.linhas)}

bins == <<150, 200, 250, 300, 350, 400, 450>>
labels == <<"1.5-2.0", "2.0-2.5", "2.5-3.0", "3.0-3.5", "3.5-4.0", "4.0-4.5">>

\* bins.searchsorted(x, side='left'): how many edges are below x
SearchSortedLeft(x) == Cardinality({i \in DOMAIN bins : bins[i] < x})
\* bins.searchsorted(x, side='right'): how many edges are at most x
SearchSortedRight(x) == Cardinality({i \in DOMAIN bins : bins[i] <= x})

\* mutant of pd.cut: right=False, intervals closed on the left
cut_right_false(x) ==
  LET ids == SearchSortedRight(x)
  IN  IF ids = 0 \/ ids = Len(bins) THEN NaN ELSE labels[ids]
\* pd.cut(x, bins=bins, labels=labels) with right=True, include_lowest=False
cut(x) ==
  LET ids == SearchSortedLeft(x)
  IN  IF ids = 0 \/ ids = Len(bins) THEN NaN ELSE labels[ids]

-----------------------------------------------------------------------------
(* carregar_dados                                                          *)

\* the calls of carregar_dados that raise: open of a missing file, df['Data']
\* or df['USD_BRL'] of a missing column, to_datetime of a cell that is no date
CarregarFalha(arq) ==
  IF ~arq.existe THEN TRUE
  ELSE IF "Data" \notin arq.colunas THEN TRUE
  ELSE IF \E i \in DOMAIN arq.linhas : ~DataValida(arq.linhas[i].Data) THEN TRUE
  ELSE "USD_BRL" \notin arq.colunas

\* the DataFrames carregar_dados may return for a file it accepts
carregar_dados(arq) ==
  LET d0 == read_csv(arq)
      d1 == AtribuirColuna(d0, "Data", [i \in DOMAIN d0.linhas |-> to_datetime(d0.linhas[i].Data)])
      d2 == IF "Ano" \notin d1.colunas
            THEN AtribuirColuna(d1, "Ano", [i \in DOMAIN d1.linhas |-> DtYear(d1.linhas[i].Data)])
            ELSE d1
      d3 == IF "Mes" \notin d2.colunas
            THEN AtribuirColuna(d2, "Mes", [i \in DOMAIN d2.linhas |-> DtMonth(d2.linhas[i].Data)])
            ELSE d2
      d4 == AtribuirColuna(d3, "Trimestre", [i \in DOMAIN d3.linhas |-> DtQuarter(d3.linhas[i].Data)])
  IN  { AtribuirColuna(d5, "Faixa_Valor", [i \in DOMAIN d5.linhas |-> cut(d5.linhas[i].USD_BRL)])
        : d5 \in sort_values(d4) }

-----------------------------------------------------------------------------
(* criar_grafico_linhas                                                    *)

Janela30 == 30
Janela90 == 90

\* valores[a] + ... + valores[b]
RECURSIVE SomaIntervalo(_, _, _)
SomaIntervalo(valores, a, b) ==
  IF a > b THEN 0
  ELSE IF a = b THEN valores[a]
  ELSE LET m == (a + b) \div 2
       IN  SomaIntervalo(valores, a, m) + SomaIntervalo(valores, m + 1, b)

\* mutant of the default min_periods: min_periods=1
min_periods_um(window) == 1
\* rolling(window=window): min_periods defaults to the window size
min_periods(window) == window

\* Series.rolling(window).mean(): at row i the window is the rows
\* start+1..i with start = max(0, i - window); the mean of its nobs values
\* when nobs >= min_periods, else NaN
rolling_mean(valores, window) ==
  [ i \in DOMAIN valores |->
      LET start == Max(0, i - window)
          nobs  == i - start
      IN  IF nobs >= min_periods(window) /\ nobs > 0
          THEN [def |-> TRUE, num |-> SomaIntervalo(valores, start + 1, i), den |-> nobs]
          ELSE NaNMedia ]

eventos ==
  << [data |-> <<2015, 9, 24, 0>>,  texto |-> "Rebaixamento do Brasil", y_offset |-> 420],
     [data |-> <<2016, 5, 12, 0>>,  texto |-> "Impeachment Dilma",      y_offset |-> 350],
     [data |-> <<2018, 10, 28, 0>>, texto |-> "Eleicao Bolsonaro",      y_offset |-> 370] >>

\* df[df['Data'].dt.date == data_evento.date()].index: the labels of the
\* matching rows, in row order
IndiceDoDia(d, dia) ==
  LET P == {i \in DOMAIN d.linhas : DtDate(d.linhas[i].Data) = dia}
  IN  [k \in 1..Cardinality(P) |-> Filtrar(d.linhas, P)[k].idx]

\* mutant of df.loc: the positional df.iloc
iloc(d, rotulo, coluna) == d.linhas[rotulo + 1][coluna]
\* df.loc[rotulo, coluna]: the value in the row whose index label is rotulo
loc(d, rotulo, coluna) ==
  LET i == CHOOSE j \in DOMAIN d.linhas : d.linhas[j].idx = rotulo
  IN  d.linhas[i][coluna]

\* the annotations the loop over eventos adds to the axes
Anotacoes(d) ==
  { [ texto  |-> eventos[e].texto,
      xy     |-> <<to_datetime(eventos[e].data),
                   loc(d, IndiceDoDia(d, DtDate(to_datetime(eventos[e].data)))[1], "USD_BRL")>>,
      xytext |-> <<to_datetime(eventos[e].data), eventos[e].y_offset>> ]
    : e \in { k \in DOMAIN eventos :
                Len(IndiceDoDia(d, DtDate(to_datetime(eventos[k].data)))) > 0 } }

SemNaN(d, coluna) ==
  [ colunas |-> d.colunas,
    linhas  |-> Filtrar(d.linhas, {i \in DOMAIN d.linhas : d.linhas[i][coluna].def}) ]

\* mutant of the two assignments: followed by dropna on the new column
ComMediasMoveisDropna(d) ==
  LET d1 == AtribuirColuna(d, "MM30", rolling_mean(Coluna(d, "USD_BRL"), Janela30))
      d2 == AtribuirColuna(d1, "MM90", rolling_mean(Coluna(d1, "USD_BRL"), Janela90))
  IN  SemNaN(d2, "MM30")
\* the DataFrame after df['MM30'] = ... and df['MM90'] = ...
ComMediasMoveis(d) ==
  LET d1 == AtribuirColuna(d, "MM30", rolling_mean(Coluna(d, "USD_BRL"), Janela30))
  IN  AtribuirColuna(d1, "MM90", rolling_mean(Coluna(d1, "USD_BRL"), Janela90))

-----------------------------------------------------------------------------
(* criar_boxplot_anual                                                     *)

AmostraMax == 30

Anos(d) == {d.linhas[i].Ano : i \in DOMAIN d.linhas}
Grupo(d, ano) == {d.linhas[i].idx : i \in {j \in DOMAIN d.linhas : d.linhas[j].Ano = ano}}

\* the subsets of S with k elements, built up from the empty set
RECURSIVE Crescer(_, _)
Crescer(S, k) ==
  IF k = 0 THEN {{}}
  ELSE UNION {{T \cup {x} : x \in S \ T} : T \in Crescer(S, k - 1)}

\* the subsets of S with k elements
Subconjuntos(S, k) ==
  IF 2 * k > Cardinality(S)
  THEN {S \ T : T \in Crescer(S, Cardinality(S) - k)}
  ELSE Crescer(S, k)

\* x.sample(n) is called with no random_state: it draws from NumPy's global
\* generator, which nothing seeds, so any n rows of the group may come out
sample(grupo, n) == Subconjuntos(grupo, n)

RECURSIVE AmostrasDe(_, _)
AmostrasDe(d, A) ==
  IF A = {} THEN {<<>>}
  ELSE LET a == CHOOSE y \in A : TRUE
           n == Min(AmostraMax, Cardinality(Grupo(d, a)))
       IN  {(a :> s) @@ f : s \in sample(Grupo(d, a), n), f \in AmostrasDe(d, A \ {a})}

\* df.groupby('Ano').apply(lambda x: x.sample(min(30, len(x)))): the samples
\* it may return, each giving the labels drawn from every year's group
Amostras(d) == AmostrasDe(d, Anos(d))

-----------------------------------------------------------------------------
(* criar_grafo_rede                                                        *)

\* the rows pd.crosstab counts: those with both Ano and Faixa_Valor present
Contadas(d) == {i \in DOMAIN d.linhas : d.linhas[i].Faixa_Valor # NaN}

\* the size of the group (ano, faixa)
Contar(d, ano, faixa) ==
  Cardinality({i \in DOMAIN d.linhas : d.linhas[i].Ano = ano /\ d.linhas[i].Faixa_Valor = faixa})

\* mutant of pd.crosstab: dropna=False, a column for every category
crosstab_dropna_false(d) ==
  [ index   |-> {d.linhas[i].Ano : i \in Contadas(d)},
    columns |-> {labels[k] : k \in DOMAIN labels},
    valor   |-> [a \in {d.linhas[i].Ano : i \in Contadas(d)}, f \in {labels[k] : k \in DOMAIN labels}
                   |-> Contar(d, a, f)] ]
\* pd.crosstab(df['Ano'], df['Faixa_Valor']): rows with a missing bucket are
\* dropped, the index holds the years and the columns the categories that
\* are left, and a pair with no row counts 0
crosstab(d) ==
  [ index   |-> {d.linhas[i].Ano : i \in Contadas(d)},
    columns |-> {d.linhas[i].Faixa_Valor : i \in Contadas(d)},
    valor   |-> [a \in {d.linhas[i].Ano : i \in Contadas(d)}, f \in {d.linhas[i].Faixa_Valor : i \in Contadas(d)}
                   |-> Contar(d, a, f)] ]

\* str(ano)
str(n) == ToString(n)

\* mutant of the test on peso: >= for >
peso_positivo_ou_zero(peso) == peso >= 0
\* if peso > 0
peso_positivo(peso) == peso > 0

\* the graph after the add_node and add_edge loops; a node added twice
\* keeps the type given last
Grafo(d) ==
  LET network_data == crosstab(d)
      anos   == network_data.index
      faixas == network_data.columns
      pares  == {par \in anos \X faixas : peso_positivo(network_data.valor[par[1], par[2]])}
  IN  [ nodes |-> [n \in {str(a) : a \in anos} \cup faixas
                     |-> IF n \in faixas THEN "faixa" ELSE "ano"],
        edges |-> [e \in {<<str(par[1]), par[2]>> : par \in pares}
                     |-> LET par == CHOOSE q \in pares : <<str(q[1]), q[2]>> = e
                         IN  network_data.valor[par[1], par[2]]] ]

-----------------------------------------------------------------------------
(* main                                                                    *)

etapas == <<"carregar_dados", "criar_grafico_linhas", "criar_boxplot_anual", "criar_grafo_rede", "retorno">>

Seguinte(etapa) == etapas[(CHOOSE k \in DOMAIN etapas : etapas[k] = etapa) + 1]

\* mutant of main: each call wrapped in try/except that goes on
proxima_ignorando_excecao(etapa, excecao) == Seguinte(etapa)
\* where main goes after a call: to the next call, or out with the exception
proxima(etapa, excecao) == IF excecao THEN "erro" ELSE Seguinte(etapa)

\* the exit status of the interpreter once main has ended at pc p
StatusEm(p, s) == IF p = "erro" THEN 1 ELSE IF p = "fim" THEN 0 ELSE s

AxVazio == [series |-> <<>>, anotacoes |-> {}]

\* the k-th observation (k = 0, 1, ...) of a generated daily series with
\* porAno observations in each year from 2015 on
DataDaSerie(k, porAno) ==
  LET p == k % porAno
  IN  <<2015 + (k \div porAno), 1 + (p \div 28), 1 + (p % 28), 0>>
TaxaDaSerie(k, passo) == 130 + ((k * passo) % 341)
Passos == {7, 40}

Serie(n, porAno, passo, inverso) ==
  [ existe  |-> TRUE,
    colunas |-> {"Data", "USD_BRL"},
    linhas  |-> [i \in 1..n |->
                   LET k == IF inverso THEN n - i ELSE i - 1
                   IN  [Data |-> DataDaSerie(k, porAno), USD_BRL |-> TaxaDaSerie(k, passo)]] ]

\* series within one year, around the 30-row window and the sample size;
\* series over several years, around the 90-row window
ArquivosSerie ==
  {Serie(n, AmostraMax + 1, passo, inverso)
     : n \in {Janela30 - 1, Janela30, Janela30 + 1}, passo \in Passos, inverso \in BOOLEAN}
  \cup
  {Serie(n, AmostraMax, passo, inverso)
     : n \in (Janela90 - 1)..MaxSerie, passo \in Passos, inverso \in BOOLEAN}

ArquivosUnidade ==
  {[existe |-> TRUE, colunas |-> {"Data", "USD_BRL"}, linhas |-> <<l>>]
     : l \in [Data : DatasUnidade, USD_BRL : TaxasUnidade]}
  \cup
  {[existe |-> TRUE, colunas |-> {"Data", "USD_BRL", "Ano", "Mes"}, linhas |-> <<l>>]
     : l \in [Data : DatasPequenas, USD_BRL : TaxasPequenas, Ano : AnosArquivo, Mes : MesesArquivo]}
  \cup
  {[existe |-> TRUE, colunas |-> {"Data"}, linhas |-> <<l>>] : l \in [Data : DatasPequenas]}
  \cup
  {[existe |-> TRUE, colunas |-> {"USD_BRL"}, linhas |-> <<l>>] : l \in [USD_BRL : TaxasPequenas]}
  \cup
  {[existe |-> FALSE, colunas |-> {}, linhas |-> <<>>]}

ArquivosPequenos ==
  {[existe |-> TRUE, colunas |-> {"Data", "USD_BRL"}, linhas |-> ls]
     : ls \in SeqsAte([Data : DatasPequenas, USD_BRL : TaxasPequenas], MaxLinhas)}

Init ==
  /\ arquivo \in ArquivosUnidade \cup ArquivosPequenos \cup ArquivosSerie
  /\ df = Nenhum
  /\ pc = "carregar_dados"
  /\ saida = <<>>
  /\ imagens = {}
  /\ status = -1
  /\ ax = AxVazio
  /\ sample_df = <<>>
  /\ sample_df2 = <<>>
  /\ G = GrafoVazio

\* df = carregar_dados('usd_brl_preparado.csv') returns
CarregarDados ==
  /\ pc = "carregar_dados"
  /\ ~CarregarFalha(arquivo)
  /\ df' \in carregar_dados(arquivo)
  /\ saida' = saida \o <<"iniciando", "carregando", "preparado">>
  /\ pc' = proxima("carregar_dados", FALSE)
  /\ status' = StatusEm(pc', status)
  /\ UNCHANGED <<arquivo, imagens, ax, sample_df, sample_df2, G>>

\* carregar_dados raises
CarregarDadosErro ==
  /\ pc = "carregar_dados"
  /\ CarregarFalha(arquivo)
  /\ saida' = saida \o <<"iniciando", "carregando">>
  /\ pc' = proxima("carregar_dados", TRUE)
  /\ status' = StatusEm(pc', status)
  /\ UNCHANGED <<arquivo, df, imagens, ax, sample_df, sample_df2, G>>

\* criar_grafico_linhas(df, salvar_como='grafico_linhas.png') returns
CriarGraficoLinhas ==
  /\ pc = "criar_grafico_linhas"
  /\ df' = ComMediasMoveis(df)
  /\ ax' = [ series    |-> <<Coluna(df', "USD_BRL"), Coluna(df', "MM30"), Coluna(df', "MM90")>>,
             anotacoes |-> Anotacoes(df') ]
  /\ imagens' = imagens \cup {"grafico_linhas.png"}
  /\ saida' = saida \o <<"linhas", "salvo grafico_linhas.png">>
  /\ pc' = proxima("criar_grafico_linhas", FALSE)
  /\ status' = StatusEm(pc', status)
  /\ UNCHANGED <<arquivo, sample_df, sample_df2, G>>

\* criar_grafico_linhas raises in plt.savefig, with or without a file left
CriarGraficoLinhasErro ==
  /\ pc = "criar_grafico_linhas"
  /\ df' = ComMediasMoveis(df)
  /\ ax' = [ series    |-> <<Coluna(df', "USD_BRL"), Coluna(df', "MM30"), Coluna(df', "MM90")>>,
             anotacoes |-> Anotacoes(df') ]
  /\ imagens' \in {imagens, imagens \cup {"grafico_linhas.png"}}
  /\ saida' = saida \o <<"linhas">>
  /\ pc' = proxima("criar_grafico_linhas", TRUE)
  /\ status' = StatusEm(pc', status)
  /\ UNCHANGED <<arquivo, sample_df, sample_df2, G>>

\* criar_boxplot_anual(df, salvar_como='boxplot_anual.png') returns;
\* sample_df2 is the sample a second run on the same DataFrame draws
CriarBoxplotAnual ==
  /\ pc = "criar_boxplot_anual"
  /\ sample_df' \in Amostras(df)
  /\ sample_df2' \in Amostras(df)
  /\ imagens' = imagens \cup {"boxplot_anual.png"}
  /\ saida' = saida \o <<"boxplot", "salvo boxplot_anual.png">>
  /\ pc' = proxima("criar_boxplot_anual", FALSE)
  /\ status' = StatusEm(pc', status)
  /\ UNCHANGED <<arquivo, df, ax, G>>

\* criar_boxplot_anual raises in plt.savefig
CriarBoxplotAnualErro ==
  /\ pc = "criar_boxplot_anual"
  /\ imagens' \in {imagens, imagens \cup {"boxplot_anual.png"}}
  /\ saida' = saida \o <<"boxplot">>
  /\ pc' = proxima("criar_boxplot_anual", TRUE)
  /\ status' = StatusEm(pc', status)
  /\ UNCHANGED <<arquivo, df, ax, sample_df, sample_df2, G>>

\* criar_grafo_rede(df, salvar_como='grafo_rede.png') returns
CriarGrafoRede ==
  /\ pc = "criar_grafo_rede"
  /\ G' = Grafo(df)
  /\ imagens' = imagens \cup {"grafo_rede.png"}
  /\ saida' = saida \o <<"rede", "salvo grafo_rede.png">>
  /\ pc' = proxima("criar_grafo_rede", FALSE)
  /\ status' = StatusEm(pc', status)
  /\ UNCHANGED <<arquivo, df, ax, sample_df, sample_df2>>

\* criar_grafo_rede raises in plt.savefig
CriarGrafoRedeErro ==
  /\ pc = "criar_grafo_rede"
  /\ G' = Grafo(df)
  /\ imagens' \in {imagens, imagens \cup {"grafo_rede.png"}}
  /\ saida' = saida \o <<"rede">>
  /\ pc' = proxima("criar_grafo_rede", TRUE)
  /\ status' = StatusEm(pc', status)
  /\ UNCHANGED <<arquivo, df, ax, sample_df, sample_df2>>

\* main prints its last line and returns
Retorno ==
  /\ pc = "retorno"
  /\ saida' = saida \o <<"sucesso">>
  /\ pc' = "fim"
  /\ status' = StatusEm(pc', status)
  /\ UNCHANGED <<arquivo, df, imagens, ax, sample_df, sample_df2, G>>

Next ==
  \/ CarregarDados
  \/ CarregarDadosErro
  \/ CriarGraficoLinhas
  \/ CriarGraficoLinhasErro
  \/ CriarBoxplotAnual
  \/ CriarBoxplotAnualErro
  \/ CriarGrafoRede
  \/ CriarGrafoRedeErro
  \/ Retorno

Spec == Init /\ [][Next]_vars

-----------------------------------------------------------------------------
(* Properties.                                                             *)

Feito(mensagem) == \E k \in DOMAIN saida : saida[k] = mensagem
Preparado == Feito("preparado")
N == Len(df.linhas)

\* the file is one carregar_dados reads to the end: it exists, has both
\* required columns, and every date cell names a date
EntradaValida ==
  /\ arquivo.existe
  /\ {"Data", "USD_BRL"} \subseteq arquivo.colunas
  /\ \A i \in DOMAIN arquivo.linhas :
       /\ arquivo.linhas[i].Data[2] \in 1..12
       /\ arquivo.linhas[i].Data[3] \in 1..31

\* the bucket of rate x under left-closed intervals, the last one closed
FaixaFechadaAEsquerda(x) ==
  IF x < 150 \/ x > 450 THEN NaN
  ELSE IF x < 200 THEN "1.5-2.0"
  ELSE IF x < 250 THEN "2.0-2.5"
  ELSE IF x < 300 THEN "2.5-3.0"
  ELSE IF x < 350 THEN "3.0-3.5"
  ELSE IF x < 400 THEN "3.5-4.0"
  ELSE "4.0-4.5"

\* the bucket of rate x under right-closed intervals, the first one open at 1.5
FaixaFechadaADireita(x) ==
  IF x <= 150 \/ x > 450 THEN NaN
  ELSE IF x <= 200 THEN "1.5-2.0"
  ELSE IF x <= 250 THEN "2.0-2.5"
  ELSE IF x <= 300 THEN "2.5-3.0"
  ELSE IF x <= 350 THEN "3.0-3.5"
  ELSE IF x <= 400 THEN "3.5-4.0"
  ELSE "4.0-4.5"

\* C1 as claimed: every prepared row has the bucket of the left-closed
\* intervals [1.5,2.0), ..., [3.5,4.0), [4.0,4.5]; outside them it is undefined
C1_FaixaFechadaAEsquerda ==
  Preparado => \A i \in 1..N : df.linhas[i].Faixa_Valor = FaixaFechadaAEsquerda(df.linhas[i].USD_BRL)

\* C1 amended: every prepared row has the bucket of the right-closed intervals
\* (1.5,2.0], (2.0,2.5], ..., (4.0,4.5]: an edge 2.0 .. 4.5 gets the bucket
\* that ends at it, 1.5 and every rate outside (1.5,4.5] get an undefined
\* bucket, and no rate makes the load fail
C1_FaixaFechadaADireita ==
  /\ Preparado => \A i \in 1..N : df.linhas[i].Faixa_Valor = FaixaFechadaADireita(df.linhas[i].USD_BRL)
  /\ (EntradaValida /\ pc # "carregar_dados") => Preparado

C1_Witness ==
  /\ Preparado
  /\ \E i \in 1..N : df.linhas[i].USD_BRL = 200 /\ df.linhas[i].Faixa_Valor = "1.5-2.0"

Ordenado == \A i \in 1..(N - 1) : df.linhas[i].Data <= df.linhas[i + 1].Data

\* C2: the prepared sequence is sorted non-decreasing by date and is a
\* permutation of the input records: same length, every input row exactly once
C2_OrdenadoEPermutacao ==
  Preparado =>
    /\ Ordenado
    /\ N = Len(arquivo.linhas)
    /\ {df.linhas[i].idx : i \in 1..N} = 0..(Len(arquivo.linhas) - 1)
    /\ \A i \in 1..N :
         /\ df.linhas[i].USD_BRL = arquivo.linhas[df.linhas[i].idx + 1].USD_BRL
         /\ df.linhas[i].Data = to_datetime(arquivo.linhas[df.linhas[i].idx + 1].Data)

C2_Witness ==
  /\ Preparado
  /\ N >= 2
  /\ df.linhas[1].idx # 0
  /\ \E i \in 1..N : df.linhas[i].Faixa_Valor = NaN

\* the sum of f over a finite set S
RECURSIVE SomaDe(_, _)
SomaDe(f, S) ==
  IF S = {} THEN 0
  ELSE LET x == CHOOSE y \in S : TRUE IN f[x] + SomaDe(f, S \ {x})

\* the sum of f over a finite set S of integers, split at the middle of its range
RECURSIVE Total(_, _)
Total(f, S) ==
  IF S = {} THEN 0
  ELSE LET lo  == CHOOSE x \in S : \A y \in S : x <= y
           hi  == CHOOSE x \in S : \A y \in S : x >= y
           mid == (lo + hi) \div 2
       IN  IF lo = hi THEN f[lo]
           ELSE Total(f, {x \in S : x <= mid}) + Total(f, {x \in S : x > mid})

MediaCerta(m, W, i) ==
  /\ m.def <=> (i - 1 >= W - 1)
  /\ m.def => m.den = W
  /\ m.def => m.num * W = m.den * Total(Coluna(df, "USD_BRL"), (i - W + 1)..i)

\* C3: after criar_grafico_linhas, for W = 30 and W = 90 the moving average at
\* 0-based index i is defined iff i >= W-1 and then is the mean of the W
\* values at i-W+1..i; before that it is NaN, and so plotted as a gap
C3_MediaMovel ==
  Feito("linhas") =>
    /\ \A i \in 1..N : MediaCerta(df.linhas[i].MM30, 30, i) /\ MediaCerta(df.linhas[i].MM90, 90, i)
    /\ ax.series[2] = Coluna(df, "MM30")
    /\ ax.series[3] = Coluna(df, "MM90")

C3_Witness ==
  /\ Feito("linhas")
  /\ N >= 90
  /\ \A i \in 1..89 : ~df.linhas[i].MM90.def
  /\ df.linhas[90].MM90.def
  /\ df.linhas[90].MM90.num * 90 = df.linhas[90].MM90.den * Total(Coluna(df, "USD_BRL"), 1..90)

Observacoes(ano, faixa) ==
  {i \in 1..N : df.linhas[i].Ano = ano /\ df.linhas[i].Faixa_Valor = faixa}

\* C4: after criar_grafo_rede an edge (year, bucket) exists iff some
\* observation has that year and bucket, its weight is their number, no edge
\* has weight zero, and the weights add up to the number of observations
\* whose bucket is defined
C4_Arestas ==
  Feito("rede") =>
    /\ \A a \in Anos(df) : \A k \in DOMAIN labels :
         LET c == Cardinality(Observacoes(a, labels[k]))
             e == <<str(a), labels[k]>>
         IN  /\ e \in DOMAIN G.edges <=> c > 0
             /\ e \in DOMAIN G.edges => G.edges[e] = c
    /\ \A e \in DOMAIN G.edges :
         /\ G.edges[e] > 0
         /\ \E a \in Anos(df) : \E k \in DOMAIN labels : e = <<str(a), labels[k]>>
    /\ SomaDe(G.edges, DOMAIN G.edges) = Cardinality({i \in 1..N : df.linhas[i].Faixa_Valor # NaN})

C4_Witness ==
  /\ Feito("rede")
  /\ \E e \in DOMAIN G.edges : G.edges[e] >= 2
  /\ \E i \in 1..N : df.linhas[i].Faixa_Valor = NaN
  /\ Cardinality(DOMAIN G.edges) >= 2

\* C5 as claimed: two runs of criar_boxplot_anual on the same prepared
\* DataFrame draw the same sample in every year group
C5_AmostraReproduzivel ==
  Feito("salvo boxplot_anual.png") => sample_df = sample_df2

Renderizando == pc \in {"criar_grafico_linhas", "criar_boxplot_anual", "criar_grafo_rede"}

\* C6 as claimed: no renderer changes the DataFrame it is given
C6_SomenteLeitura == [][Renderizando => df' = df]_vars

\* C6 amended: criar_boxplot_anual and criar_grafo_rede leave the DataFrame
\* as it is; criar_grafico_linhas adds the columns MM30 and MM90 to it and
\* leaves its rows, their order and every other column as they are
C6_SoAcrescentaMedias ==
  [][Renderizando =>
       /\ df'.colunas = df.colunas \cup (IF pc = "criar_grafico_linhas" THEN {"MM30", "MM90"} ELSE {})
       /\ Len(df'.linhas) = Len(df.linhas)
       /\ \A i \in 1..Len(df.linhas) :
            \A c \in (df.colunas \ {"MM30", "MM90"}) \cup {"idx"} : df'.linhas[i][c] = df.linhas[i][c]
       /\ pc # "criar_grafico_linhas" => df' = df]_vars

C6_Witness ==
  /\ pc = "criar_boxplot_anual"
  /\ N >= 30
  /\ {"MM30", "MM90"} \subseteq df.colunas
  /\ df.linhas[30].MM30.def

Dia(c) == c[1] * 10000 + c[2] * 100 + c[3]

\* C7: after criar_grafico_linhas each event has an annotation iff some row
\* has exactly its calendar date, at most one, pointing at the rate of a row
\* of that date; an event whose date is absent adds nothing, whatever the
\* other events do
C7_Anotacoes ==
  /\ Feito("linhas") =>
       \A e \in DOMAIN eventos :
         LET linhasDoDia == {i \in 1..N : DtDate(df.linhas[i].Data) = Dia(eventos[e].data)}
             anots == {a \in ax.anotacoes : a.texto = eventos[e].texto}
         IN  /\ anots # {} <=> linhasDoDia # {}
             /\ Cardinality(anots) <= 1
             /\ \A a \in anots :
                  /\ a.xy[2] \in {df.linhas[i].USD_BRL : i \in linhasDoDia}
                  /\ DtDate(a.xy[1]) = Dia(eventos[e].data)
                  /\ a.xytext = <<a.xy[1], eventos[e].y_offset>>
  /\ \A a \in ax.anotacoes : \E e \in DOMAIN eventos : a.texto = eventos[e].texto

C7_Witness ==
  /\ Feito("salvo grafico_linhas.png")
  /\ \E a \in ax.anotacoes : a.texto = "Rebaixamento do Brasil" /\ a.xy = <<2015092400, 200>>
  /\ \A a \in ax.anotacoes : a.texto # "Impeachment Dilma"
  /\ \E a \in ax.anotacoes : a.texto = "Eleicao Bolsonaro"
  /\ df.linhas[1].idx # 0

SaidaCompleta ==
  << "iniciando", "carregando", "preparado",
     "linhas", "salvo grafico_linhas.png",
     "boxplot", "salvo boxplot_anual.png",
     "rede", "salvo grafo_rede.png", "sucesso" >>

C8_Estados ==
  /\ Len(saida) <= Len(SaidaCompleta)
  /\ \A k \in DOMAIN saida : saida[k] = SaidaCompleta[k]
  /\ status \in {-1, 0, 1}
  /\ status = 0 <=> saida = SaidaCompleta
  /\ status = 0 => imagens = {"grafico_linhas.png", "boxplot_anual.png", "grafo_rede.png"}
  /\ status = 1 <=> pc = "erro"
  /\ status = 1 => saida[Len(saida)] \in {"carregando", "linhas", "boxplot", "rede"}
  /\ ~EntradaValida =>
       /\ imagens = {}
       /\ ~Feito("linhas")
       /\ pc \in {"carregar_dados", "erro"}
  /\ "grafico_linhas.png" \in imagens => Feito("linhas")
  /\ "boxplot_anual.png" \in imagens => Feito("boxplot")
  /\ "grafo_rede.png" \in imagens => Feito("rede")

\* C8: the stages run in the order preparation, line chart, boxplot, graph; a
\* failed preparation ends the run before any renderer starts or any image
\* exists; a failure in any stage ends the run with status 1 and nothing runs
\* after it; the run ends with status 0 exactly when all four stages completed
C8_Sequencia ==
  /\ []C8_Estados
  /\ [][/\ status # -1 => UNCHANGED vars
        /\ (~EntradaValida /\ pc = "carregar_dados") => status' = 1]_vars

C8_Witness ==
  /\ pc = "erro"
  /\ status = 1
  /\ saida[Len(saida)] = "boxplot"
  /\ imagens = {"grafico_linhas.png"}

NosDoTipo(tipo) == {n \in DOMAIN G.nodes : G.nodes[n] = tipo}
FaixasObservadas == {df.linhas[i].Faixa_Valor : i \in {j \in 1..N : df.linhas[j].Faixa_Valor # NaN}}

\* C9 as claimed: one year node for every year of the prepared observations,
\* also a year whose observations all have an undefined bucket, and one bucket
\* node for every bucket some observation has
C9_NosDeTodosOsAnos ==
  Feito("rede") =>
    /\ NosDoTipo("ano") = {str(a) : a \in Anos(df)}
    /\ NosDoTipo("faixa") = FaixasObservadas

\* C9 amended: one year node for every year that has an observation with a
\* defined bucket, and none for a year whose observations all have an
\* undefined bucket; one bucket node for every bucket some observation has;
\* no other node
C9_NosDosAnosComFaixa ==
  Feito("rede") =>
    /\ NosDoTipo("ano") =
         {str(a) : a \in {b \in Anos(df) : \E i \in 1..N :
                            df.linhas[i].Ano = b /\ df.linhas[i].Faixa_Valor # NaN}}
    /\ NosDoTipo("faixa") = FaixasObservadas
    /\ DOMAIN G.nodes = NosDoTipo("ano") \cup NosDoTipo("faixa")

C9_Witness ==
  /\ Feito("rede")
  /\ \E a \in Anos(df) : str(a) \notin DOMAIN G.nodes
  /\ NosDoTipo("ano") # {}
  /\ Cardinality(NosDoTipo("faixa")) = 1

\* C10 as claimed: rows with the same date keep their input order
C10_Estavel ==
  Preparado =>
    \A i \in 1..N : \A j \in 1..N :
      (i < j /\ df.linhas[i].Data = df.linhas[j].Data) => df.linhas[i].idx < df.linhas[j].idx

\* C10 amended: the order is decided by the date alone: of two rows with
\* different dates the earlier date comes first whatever their input order;
\* rows with the same date are adjacent, in an order the sort does not fix
C10_OrdemSoPelaData ==
  Preparado =>
    \A i \in 1..N : \A j \in 1..N :
      df.linhas[i].Data < df.linhas[j].Data => i < j

C10_Witness ==
  /\ Preparado
  /\ \E i \in 1..N : \E j \in 1..N :
       /\ i < j
       /\ df.linhas[i].Data = df.linhas[j].Data
       /\ df.linhas[i].idx > df.linhas[j].idx
  /\ \E i \in 1..N : df.linhas[i].Data # df.linhas[1].Data

====
